---- MODULE Spec2Model ----
(***************************************************************************)
(* Guidance-potential computation of the retinotopic growth-cone           *)
(* simulation (src/src/model/potential_calculation.py) and the object      *)
(* factory (src/src/build/object_factory.py).                              *)
(*                                                                         *)
(* Number representation.  The program computes in binary floating point.  *)
(* Here every real quantity is a fixed-point integer:                      *)
(*   - concentrations, ff_coef, areas, logarithms: multiples of 1/Unit,    *)
(*   - distances and coordinates handed to euclidean_distance: multiples   *)
(*     of 1/Milli,                                                         *)
(*   - signals before rounding: multiples of 1/(Unit*Unit),                *)
(*   - signals after the 6-decimal rounding: multiples of 1/Micro.         *)
(* Library functions (sqrt, acos, log, exp) are computed by integer        *)
(* approximations that are exact at the points the branches of the code    *)
(* distinguish (sqrt of squares, acos(1) = 0, exp(0) = 1).                 *)
(***************************************************************************)
EXTENDS Integers, Naturals, Sequences, FiniteSets, TLC

Unit == 10 ^ 4
Milli == 10 ^ 3

Abs(x) == IF x < 0 THEN -x ELSE x
Max(a, b) == IF a >= b THEN a ELSE b
Min(a, b) == IF a <= b THEN a ELSE b

\* floor(a * b / Unit) for a, b >= 0, without leaving 32-bit range
MulDiv(a, b) ==
    LET a1 == a \div Unit
        a0 == a % Unit
        b1 == b \div Unit
        b0 == b % Unit
    IN  a1 * b1 * Unit + a1 * b0 + a0 * b1 + (a0 * b0) \div Unit

RECURSIVE SqrtSearch(_, _, _)
SqrtSearch(n, lo, hi) ==
    IF lo >= hi THEN lo
    ELSE LET mid == (lo + hi + 1) \div 2
         IN  IF mid * mid <= n THEN SqrtSearch(n, mid, hi)
             ELSE SqrtSearch(n, lo, mid - 1)

\* math.sqrt on integers: floor of the square root (exact on squares)
ISqrt(n) == SqrtSearch(n, 0, Min(n, 46340))

Micro == 1000000
LogFloor == 100
Pi == 31416

RECURSIVE Log2Floor(_)
Log2Floor(n) == IF n < 2 THEN 0 ELSE 1 + Log2Floor(n \div 2)

RECURSIVE Pow2(_)
Pow2(k) == IF k <= 0 THEN 1 ELSE 2 * Pow2(k - 1)

\* math.log of a rounded signal: n > 0 counts 1/Micro, the result counts
\* 1/Unit.  ln n = k ln 2 + 2 atanh((m - 1) / (m + 1)) with n = m * 2^k.
Ln(n) ==
    LET k == Log2Floor(n)
        sh == IF k > 14 THEN k - 14 ELSE 0
        nn == n \div Pow2(sh)
        p == Pow2(k - sh)
        z == ((nn - p) * Unit) \div (nn + p)
        z2 == MulDiv(z, z)
        z3 == MulDiv(z2, z)
        z5 == MulDiv(z3, z2)
        z7 == MulDiv(z5, z2)
    IN  (k * 69315) \div 10 + 2 * (z + z3 \div 3 + z5 \div 5 + z7 \div 7) - 138155

\* math.acos on [0, 1]: t and the result count 1/Unit
\* (sqrt(1 - t) times a cubic, exact at t = 1)
Acos(t) ==
    LET s == ISqrt((Unit - t) * Unit)
        t2 == MulDiv(t, t)
        t3 == MulDiv(t2, t)
        poly == 15707 - (2121 * t) \div Unit + (743 * t2) \div Unit
                      - (187 * t3) \div Unit
    IN  (s * poly) \div Unit

\* a grid point in the coordinates euclidean_distance works on
ToMilli(p) == <<p[1] * Milli, p[2] * Milli>>

euclidean_distance(point1, point2) ==
    LET x1 == point1[1]
        y1 == point1[2]
        x2 == point2[1]
        y2 == point2[2]
    IN  ISqrt((x2 - x1) * (x2 - x1) + (y2 - y1) * (y2 - y1))

\* bounding_box without the lower clamp
bounding_box_unclamped(gc_pos, gc_size, substrate) ==
    LET x_min == gc_pos[1] - gc_size
        x_max == Min(substrate.cols - 1, gc_pos[1] + gc_size)
        y_min == gc_pos[2] - gc_size
        y_max == Min(substrate.rows - 1, gc_pos[2] + gc_size)
    IN  <<x_min, x_max, y_min, y_max>>

bounding_box(gc_pos, gc_size, substrate) ==
    LET x_min == Max(0, gc_pos[1] - gc_size)
        x_max == Min(substrate.cols - 1, gc_pos[1] + gc_size)
        y_min == Max(0, gc_pos[2] - gc_size)
        y_max == Min(substrate.rows - 1, gc_pos[2] + gc_size)
    IN  <<x_min, x_max, y_min, y_max>>

\* intersection_area whose total overlap forgets the square of the radius
intersection_area_linear(gc1_pos, gc2_pos, radius) ==
    LET d == euclidean_distance(ToMilli(gc1_pos), ToMilli(gc2_pos))
    IN  IF d = 0 THEN radius * Pi
        ELSE IF d > radius * 2 * Milli THEN 0
        ELSE LET x == (d * d) \div (2 * d)
                 z == x * x
                 y == ISqrt(radius * radius * Milli * Milli - z)
                 area == radius * radius * Acos((x * Unit) \div (radius * Milli))
                         - (x * y) \div ((Milli * Milli) \div Unit)
             IN  (area * 3) \div 2

intersection_area(gc1_pos, gc2_pos, radius) ==
    LET d == euclidean_distance(ToMilli(gc1_pos), ToMilli(gc2_pos))
    IN  IF d = 0 THEN radius * radius * Pi
        ELSE IF d > radius * 2 * Milli THEN 0
        ELSE LET x == (d * d) \div (2 * d)
                 z == x * x
                 y == ISqrt(radius * radius * Milli * Milli - z)
                 area == radius * radius * Acos((x * Unit) \div (radius * Milli))
                         - (x * y) \div ((Milli * Milli) \div Unit)
             IN  (area * 3) \div 2

\* numpy indexing m[i, j] of a rows x cols matrix: a negative index counts
\* from the end, an index outside -n .. n-1 raises IndexError
IndexOk(i, n) == i >= -n /\ i < n
Wrap(i, n) == IF i < 0 THEN i + n ELSE i
ReadCell(m, cell, substrate) ==
    IF IndexOk(cell[1], substrate.rows) /\ IndexOk(cell[2], substrate.cols)
    THEN m[Wrap(cell[1], substrate.rows)][Wrap(cell[2], substrate.cols)]
    ELSE 0

RECURSIVE SumCells(_, _, _)
SumCells(cells, m, substrate) ==
    IF cells = {} THEN 0
    ELSE LET c == CHOOSE c \in cells : TRUE
         IN  ReadCell(m, c, substrate) + SumCells(cells \ {c}, m, substrate)

\* the cells (i, j) of the scan of ft_interaction that pass the distance test,
\* i.e. the index pairs at which the two matrices are read
ft_reads(gc, substrate) ==
    LET borders == bounding_box(gc.pos_new, gc.size, substrate)
        edge_length == Abs(borders[3] - borders[4])
        center == <<((borders[3] + borders[4]) * Milli) \div 2,
                    ((borders[1] + borders[2]) * Milli) \div 2>>
    IN  { c \in (borders[3] .. borders[4] - 1) \X (borders[1] .. borders[2] - 1) :
            ~ (euclidean_distance(center, ToMilli(c)) > (edge_length * Milli) \div 2) }

ft_interaction(gc, substrate) ==
    LET reads == ft_reads(gc, substrate)
    IN  [ sum_ligands |-> SumCells(reads, substrate.ligands, substrate),
          sum_receptors |-> SumCells(reads, substrate.receptors, substrate),
          reads |-> reads,
          fault |-> \E c \in reads : ~ IndexOk(c[1], substrate.rows)
                                     \/ ~ IndexOk(c[2], substrate.cols) ]

\* gc1 == gc2 on GrowthCone objects
ConeEq(gc1, gc2) == gc1.id = gc2.id

RECURSIVE ff_loop(_, _, _)
ff_loop(gc1, gcs, k) ==
    IF k > Len(gcs)
    THEN [ sum_ligands |-> 0, sum_receptors |-> 0, contributors |-> {} ]
    ELSE LET gc2 == gcs[k]
             rest == ff_loop(gc1, gcs, k + 1)
         IN  IF ConeEq(gc1, gc2) THEN rest
             ELSE LET d == euclidean_distance(ToMilli(gc2.pos_current),
                                              ToMilli(gc1.pos_new))
                  IN  IF d < gc1.size * 2 * Milli
                      THEN LET area == intersection_area(gc1.pos_new,
                                                         gc2.pos_current, gc1.size)
                           IN  [ sum_ligands |-> rest.sum_ligands
                                     + MulDiv(area, gc2.ligand_current),
                                 sum_receptors |-> rest.sum_receptors
                                     + MulDiv(area, gc2.receptor_current),
                                 contributors |-> rest.contributors \cup {gc2.id} ]
                      ELSE rest

\* ff_interaction without the self test
RECURSIVE ff_loop_noskip(_, _, _)
ff_loop_noskip(gc1, gcs, k) ==
    IF k > Len(gcs)
    THEN [ sum_ligands |-> 0, sum_receptors |-> 0, contributors |-> {} ]
    ELSE LET gc2 == gcs[k]
             rest == ff_loop_noskip(gc1, gcs, k + 1)
             d == euclidean_distance(ToMilli(gc2.pos_current), ToMilli(gc1.pos_new))
         IN  IF d < gc1.size * 2 * Milli
             THEN LET area == intersection_area(gc1.pos_new, gc2.pos_current, gc1.size)
                  IN  [ sum_ligands |-> rest.sum_ligands
                            + MulDiv(area, gc2.ligand_current),
                        sum_receptors |-> rest.sum_receptors
                            + MulDiv(area, gc2.receptor_current),
                        contributors |-> rest.contributors \cup {gc2.id} ]
             ELSE rest

ff_interaction_noskip(gc1, gcs) == ff_loop_noskip(gc1, gcs, 1)

\* ff_interaction reading the candidate position of the other cones
RECURSIVE ff_loop_posnew(_, _, _)
ff_loop_posnew(gc1, gcs, k) ==
    IF k > Len(gcs)
    THEN [ sum_ligands |-> 0, sum_receptors |-> 0, contributors |-> {} ]
    ELSE LET gc2 == gcs[k]
             rest == ff_loop_posnew(gc1, gcs, k + 1)
         IN  IF ConeEq(gc1, gc2) THEN rest
             ELSE LET d == euclidean_distance(ToMilli(gc2.pos_new),
                                              ToMilli(gc1.pos_new))
                  IN  IF d < gc1.size * 2 * Milli
                      THEN LET area == intersection_area(gc1.pos_new,
                                                         gc2.pos_new, gc1.size)
                           IN  [ sum_ligands |-> rest.sum_ligands
                                     + MulDiv(area, gc2.ligand_current),
                                 sum_receptors |-> rest.sum_receptors
                                     + MulDiv(area, gc2.receptor_current),
                                 contributors |-> rest.contributors \cup {gc2.id} ]
                      ELSE rest

ff_interaction_posnew(gc1, gcs) == ff_loop_posnew(gc1, gcs, 1)

ff_interaction(gc1, gcs) == ff_loop(gc1, gcs, 1)

\* float("{:.6f}".format(a * b)): the product of two 1/Unit numbers rounded
\* (half to even) to a multiple of 1/Micro
Format6(a, b) ==
    LET f == (Unit * Unit) \div Micro
        q == a * (b \div f)
        r == a * (b % f)
        whole == q + r \div f
        rem == r % f
    IN  IF 2 * rem > f THEN whole + 1
        ELSE IF 2 * rem < f THEN whole
        ELSE IF whole % 2 = 1 THEN whole + 1 ELSE whole

\* calculate_potential without the substitution of 0.0001 for a zero signal
calculate_potential_nofloor(gc, gcs, substrate, ff_coef, forward_on, reverse_on, ff_inter_on, ft_inter_on) ==
    LET ft == IF ft_inter_on THEN ft_interaction(gc, substrate)
              ELSE [ sum_ligands |-> 0, sum_receptors |-> 0, reads |-> {},
                     fault |-> FALSE ]
        ff == IF ff_inter_on THEN ff_interaction(gc, gcs)
              ELSE [ sum_ligands |-> 0, sum_receptors |-> 0, contributors |-> {} ]
        forward_sig == IF forward_on
                       THEN Format6(gc.receptor_current,
                                    ft.sum_ligands + gc.ligand_current
                                      + MulDiv(ff_coef, ff.sum_ligands))
                       ELSE 0
        reverse_sig == IF reverse_on
                       THEN Format6(gc.ligand_current,
                                    ft.sum_receptors + gc.receptor_current
                                      + MulDiv(ff_coef, ff.sum_receptors))
                       ELSE 0
        rev_arg == reverse_sig
        fwd_arg == forward_sig
    IN  IF ft.fault
        THEN [ value |-> 0, fault |-> "IndexError", log_args |-> <<>>,
               forward_sig |-> 0, reverse_sig |-> 0 ]
        ELSE IF forward_sig = 0 /\ reverse_sig = 0
        THEN [ value |-> 0, fault |-> "none", log_args |-> <<>>,
               forward_sig |-> forward_sig, reverse_sig |-> reverse_sig ]
        ELSE IF rev_arg <= 0 \/ fwd_arg <= 0
        THEN [ value |-> 0, fault |-> "ValueError",
               log_args |-> <<rev_arg, fwd_arg>>,
               forward_sig |-> forward_sig, reverse_sig |-> reverse_sig ]
        ELSE [ value |-> Abs(Ln(rev_arg) - Ln(fwd_arg)), fault |-> "none",
               log_args |-> <<rev_arg, fwd_arg>>,
               forward_sig |-> forward_sig, reverse_sig |-> reverse_sig ]

\* calculate_potential without the early return for two zero signals
calculate_potential_nozero(gc, gcs, substrate, ff_coef, forward_on, reverse_on, ff_inter_on, ft_inter_on) ==
    LET ft == IF ft_inter_on THEN ft_interaction(gc, substrate)
              ELSE [ sum_ligands |-> 0, sum_receptors |-> 0, reads |-> {},
                     fault |-> FALSE ]
        ff == IF ff_inter_on THEN ff_interaction(gc, gcs)
              ELSE [ sum_ligands |-> 0, sum_receptors |-> 0, contributors |-> {} ]
        forward_sig == IF forward_on
                       THEN Format6(gc.receptor_current,
                                    ft.sum_ligands + gc.ligand_current
                                      + MulDiv(ff_coef, ff.sum_ligands))
                       ELSE 0
        reverse_sig == IF reverse_on
                       THEN Format6(gc.ligand_current,
                                    ft.sum_receptors + gc.receptor_current
                                      + MulDiv(ff_coef, ff.sum_receptors))
                       ELSE 0
        rev_arg == IF reverse_sig # 0 THEN reverse_sig ELSE LogFloor
        fwd_arg == IF forward_sig # 0 THEN forward_sig ELSE LogFloor
    IN  IF ft.fault
        THEN [ value |-> 0, fault |-> "IndexError", log_args |-> <<>>,
               forward_sig |-> 0, reverse_sig |-> 0 ]
        ELSE IF rev_arg <= 0 \/ fwd_arg <= 0
        THEN [ value |-> 0, fault |-> "ValueError",
               log_args |-> <<rev_arg, fwd_arg>>,
               forward_sig |-> forward_sig, reverse_sig |-> reverse_sig ]
        ELSE [ value |-> Abs(Ln(rev_arg) - Ln(fwd_arg)), fault |-> "none",
               log_args |-> <<rev_arg, fwd_arg>>,
               forward_sig |-> forward_sig, reverse_sig |-> reverse_sig ]

calculate_potential(gc, gcs, substrate, ff_coef, forward_on, reverse_on, ff_inter_on, ft_inter_on) ==
    LET ft == IF ft_inter_on THEN ft_interaction(gc, substrate)
              ELSE [ sum_ligands |-> 0, sum_receptors |-> 0, reads |-> {},
                     fault |-> FALSE ]
        ff == IF ff_inter_on THEN ff_interaction(gc, gcs)
              ELSE [ sum_ligands |-> 0, sum_receptors |-> 0, contributors |-> {} ]
        forward_sig == IF forward_on
                       THEN Format6(gc.receptor_current,
                                    ft.sum_ligands + gc.ligand_current
                                      + MulDiv(ff_coef, ff.sum_ligands))
                       ELSE 0
        reverse_sig == IF reverse_on
                       THEN Format6(gc.ligand_current,
                                    ft.sum_receptors + gc.receptor_current
                                      + MulDiv(ff_coef, ff.sum_receptors))
                       ELSE 0
        rev_arg == IF reverse_sig # 0 THEN reverse_sig ELSE LogFloor
        fwd_arg == IF forward_sig # 0 THEN forward_sig ELSE LogFloor
    IN  IF ft.fault
        THEN [ value |-> 0, fault |-> "IndexError", log_args |-> <<>>,
               forward_sig |-> 0, reverse_sig |-> 0 ]
        ELSE IF forward_sig = 0 /\ reverse_sig = 0
        THEN [ value |-> 0, fault |-> "none", log_args |-> <<>>,
               forward_sig |-> forward_sig, reverse_sig |-> reverse_sig ]
        ELSE IF rev_arg <= 0 \/ fwd_arg <= 0
        THEN [ value |-> 0, fault |-> "ValueError",
               log_args |-> <<rev_arg, fwd_arg>>,
               forward_sig |-> forward_sig, reverse_sig |-> reverse_sig ]
        ELSE [ value |-> Abs(Ln(rev_arg) - Ln(fwd_arg)), fault |-> "none",
               log_args |-> <<rev_arg, fwd_arg>>,
               forward_sig |-> forward_sig, reverse_sig |-> reverse_sig ]

\* np.exp(-s) for s >= 0; s and the result count 1/Unit
\* (exp(-s) = exp(-f) / 2^q with s = q ln 2 + f, exp(-f) by its Taylor
\* polynomial in Horner form)
ExpNeg(s) ==
    LET q == s \div 6931
        f == s % 6931
        h6 == Unit - f \div 6
        h5 == Unit - MulDiv(f, h6) \div 5
        h4 == Unit - MulDiv(f, h5) \div 4
        h3 == Unit - MulDiv(f, h4) \div 3
        h2 == Unit - MulDiv(f, h3) \div 2
        h1 == Unit - MulDiv(f, h2)
    IN  IF q > 14 THEN 0 ELSE h1 \div Pow2(q)

\* b ** n for a whole exponent n >= 1
RECURSIVE PowFix(_, _)
PowFix(b, n) == IF n <= 1 THEN b ELSE MulDiv(b, PowFix(b, n - 1))

\* a_min of np.clip: 1e-10 lies below the resolution 1/Unit, where the
\* clip is to the least positive number
AMin == 1

\* calculate_ff_coef returning the exponential instead of its complement
calculate_ff_coef_decay(step, num_steps, sigmoid_steepness, sigmoid_shift, sigmoid_height) ==
    LET step1 == step * Unit + (num_steps * Unit) \div 100
        step_ratio == step1 \div num_steps
        sigmoid_adjustment == PowFix(MulDiv(step_ratio, sigmoid_shift),
                                     sigmoid_steepness)
        safe_sigmoid == Max(sigmoid_adjustment, AMin)
    IN  ExpNeg(safe_sigmoid) * sigmoid_height

\* step and num_steps are whole numbers, sigmoid_steepness a whole exponent,
\* sigmoid_shift and sigmoid_height count 1/Unit; the result counts
\* 1/(Unit*Unit)
calculate_ff_coef(step, num_steps, sigmoid_steepness, sigmoid_shift, sigmoid_height) ==
    LET step1 == step * Unit + (num_steps * Unit) \div 100
        step_ratio == step1 \div num_steps
        sigmoid_adjustment == PowFix(MulDiv(step_ratio, sigmoid_shift),
                                     sigmoid_steepness)
        safe_sigmoid == Max(sigmoid_adjustment, AMin)
    IN  (Unit - ExpNeg(safe_sigmoid)) * sigmoid_height

\* ---- object_factory.py ----
\* the substrate class the if / elif chain of build_substrate picks
SubstrateClass(substrate_type) ==
    CASE substrate_type = "CONTINUOUS_GRADIENTS" -> "ContinuousGradientSubstrate"
      [] substrate_type = "WEDGES" -> "WedgeSubstrate"
      [] substrate_type = "STRIPE_FWD" -> "StripeFwdSubstrate"
      [] substrate_type = "STRIPE_REW" -> "StripeRewSubstrate"
      [] substrate_type = "STRIPE_DUO" -> "StripeDuoSubstrate"
      [] substrate_type = "GAP_RR" -> "GapSubstrateRR"
      [] substrate_type = "GAP_RB" -> "GapSubstrateRB"
      [] substrate_type = "GAP_BR" -> "GapSubstrateBR"
      [] substrate_type = "GAP_BB" -> "GapSubstrateBB"
      [] substrate_type = "GAP_INV" -> "GapSubstrateInverted"
      [] OTHER -> "none"

NewSubstrate(class, cfg) ==
    [ class |-> class, rows |-> cfg.rows, cols |-> cfg.cols, offset |-> cfg.gc_size,
      min_value |-> cfg.custom_first, max_value |-> cfg.custom_second ]

\* build_substrate falling back to a default class for an unknown selector
build_substrate_default(cfg) ==
    LET class == SubstrateClass(cfg.substrate_type)
        chosen == IF class = "none" THEN "ContinuousGradientSubstrate" ELSE class
    IN  [ raised |-> "none",
          constructed |-> <<NewSubstrate(chosen, cfg)>>,
          initialize_calls |-> 1 ]

\* what one call of build_substrate does: the exception it raises, the
\* substrate objects it constructs, its calls of initialize_substrate
build_substrate(cfg) ==
    LET class == SubstrateClass(cfg.substrate_type)
    IN  IF class = "none"
        THEN [ raised |-> "ValueError", constructed |-> <<>>, initialize_calls |-> 0 ]
        ELSE [ raised |-> "none",
               constructed |-> <<NewSubstrate(class, cfg)>>,
               initialize_calls |-> 1 ]

RECURSIVE Root5Search(_, _, _)
Root5Search(x, lo, hi) ==
    IF lo >= hi THEN lo
    ELSE LET mid == (lo + hi + 1) \div 2
         IN  IF PowFix(mid, 5) <= x THEN Root5Search(x, mid, hi)
             ELSE Root5Search(x, lo, mid - 1)

\* x ** 1.2 for 0 <= x <= 1 (x times its fifth root)
Pow12(x) == MulDiv(x, Root5Search(x, 0, Unit))

\* np.linspace(0, 1, n)[i]
Linspace01(i, n) == IF n <= 1 THEN 0 ELSE (i * Unit) \div (n - 1)

initialize_growth_cones(cfg) ==
    LET gc_count == cfg.gc_count
        size == cfg.gc_size
        rows == cfg.rows
        receptors == [ i \in 0 .. gc_count - 1 |->
                         100 + MulDiv(Pow12(Linspace01(i, gc_count)), 9900) ]
        ligands == [ i \in 0 .. gc_count - 1 |-> receptors[gc_count - 1 - i] ]
        y_positions == [ i \in 0 .. gc_count - 1 |->
                           IF gc_count <= 1 THEN size
                           ELSE size + (i * (rows - 1)) \div (gc_count - 1) ]
    IN  [ k \in 1 .. gc_count |->
            [ id |-> k - 1, size |-> size,
              pos_current |-> <<size, y_positions[k - 1]>>,
              pos_new |-> <<size, y_positions[k - 1]>>,
              ligand_current |-> ligands[k - 1],
              receptor_current |-> receptors[k - 1] ] ]

(***************************************************************************)
(* State.                                                                  *)
(*   fn, args, ret   one call of a function of potential_calculation.py:   *)
(*                   its name, its arguments and what it returned          *)
(*   gcs, substrate, settings, order, potential, step                      *)
(*                   one run of the simulation loop: the growth cones, the *)
(*                   substrate, the toggles and ff_coef, the cones already *)
(*                   evaluated in the current step (in order), the         *)
(*                   potential each got, the step counter                  *)
(*   fpc, config, constructed, initialize_calls, growth_cones,             *)
(*   simulation, raised                                                    *)
(*                   one call of build_simulation: where it stands, its    *)
(*                   configuration, the substrate objects constructed (by  *)
(*                   class), the calls of initialize_substrate, the cones  *)
(*                   and Simulation objects built, the exception raised    *)
(***************************************************************************)
VARIABLES fn, args, ret,
          gcs, substrate, settings, order, potential, step,
          fpc, config, constructed, initialize_calls, growth_cones, simulation, raised

callVars == <<fn, args, ret>>
simVars == <<gcs, substrate, settings, order, potential, step>>
facVars == <<fpc, config, constructed, initialize_calls, growth_cones, simulation, raised>>
vars == <<callVars, simVars, facVars>>

Nothing == [ nothing |-> TRUE ]

IdleCalls == fn = "none" /\ args = Nothing /\ ret = Nothing
IdleSim ==
    /\ gcs = <<>> /\ substrate = Nothing /\ settings = Nothing
    /\ order = <<>> /\ potential = <<>> /\ step = 0
IdleFac ==
    /\ fpc = "idle" /\ config = Nothing /\ constructed = <<>>
    /\ initialize_calls = 0 /\ growth_cones = <<>> /\ simulation = <<>>
    /\ raised = "none"

NoRet == [ pending |-> TRUE ]

\* ---- inputs ----
MaxSize == 2
MaxOut == 2
MaxCols == 4

Half == Unit \div 2

\* a rows x cols substrate whose two matrices follow one of three patterns
MakeSubstrate(rows, cols, kind) ==
    [ rows |-> rows, cols |-> cols,
      ligands |-> [ i \in 0 .. rows - 1 |-> [ j \in 0 .. cols - 1 |->
          CASE kind = "empty" -> 0
            [] kind = "gradient" -> ((j + 1) * Half) \div cols
            [] kind = "stripe" -> IF j % 2 = 0 THEN Half ELSE 1 ] ],
      receptors |-> [ i \in 0 .. rows - 1 |-> [ j \in 0 .. cols - 1 |->
          CASE kind = "empty" -> 0
            [] kind = "gradient" -> ((cols - j) * Half) \div cols
            [] kind = "stripe" -> IF j % 2 = 0 THEN 0 ELSE Half ] ] ]

Cone(id, size, pos_current, pos_new, ligand_current, receptor_current) ==
    [ id |-> id, size |-> size, pos_current |-> pos_current, pos_new |-> pos_new,
      ligand_current |-> ligand_current, receptor_current |-> receptor_current ]

\* ---- bounding_box and ft_interaction ----
FtSubstrates ==
    { MakeSubstrate(rows, cols, kind) :
        rows \in {3, MaxCols + 1}, cols \in {3, MaxCols}, kind \in {"gradient", "stripe"} }

InitFt ==
    /\ fn \in {"bounding_box", "ft_interaction"}
    /\ \E sub \in FtSubstrates :
       \E x \in -MaxOut .. sub.cols - 1 + MaxOut :
       \E y \in -MaxOut .. sub.rows - 1 + MaxOut :
       \E size \in 1 .. MaxSize :
          args = [ gc |-> Cone(0, size, <<x, y>>, <<x, y>>, Half, Half),
                   substrate |-> sub ]
    /\ ret = NoRet
    /\ IdleSim /\ IdleFac

CallBoundingBox ==
    /\ fn = "bounding_box"
    /\ ret = NoRet
    /\ ret' = [ borders |-> bounding_box(args.gc.pos_new, args.gc.size, args.substrate) ]
    /\ UNCHANGED <<fn, args, simVars, facVars>>

CallFtInteraction ==
    /\ fn = "ft_interaction"
    /\ ret = NoRet
    /\ ret' = ft_interaction(args.gc, args.substrate)
    /\ UNCHANGED <<fn, args, simVars, facVars>>

NextFt == CallBoundingBox \/ CallFtInteraction

SpecFt == InitFt /\ [][NextFt]_vars

Returned == ret # NoRet

Inside(pos, sub) ==
    /\ 0 <= pos[1] /\ pos[1] <= sub.cols - 1
    /\ 0 <= pos[2] /\ pos[2] <= sub.rows - 1

\* C6: bounding_box clamps on both axes for every integer position and every
\* size > 0: the minima are never negative, the maxima never exceed the last
\* column / row; a position inside the substrate lies inside its box; and the
\* box is the unclipped square pos +- size when that square lies inside.
Thm_C6_BoundingBoxClamps ==
    (fn = "bounding_box" /\ Returned) =>
        LET b == ret.borders
            pos == args.gc.pos_new
            size == args.gc.size
            sub == args.substrate
        IN  /\ b[1] >= 0 /\ b[3] >= 0
            /\ b[2] <= sub.cols - 1 /\ b[4] <= sub.rows - 1
            /\ Inside(pos, sub) =>
                  /\ b[1] <= pos[1] /\ pos[1] <= b[2]
                  /\ b[3] <= pos[2] /\ pos[2] <= b[4]
            /\ ( /\ pos[1] - size >= 0 /\ pos[1] + size <= sub.cols - 1
                 /\ pos[2] - size >= 0 /\ pos[2] + size <= sub.rows - 1 )
               => b = <<pos[1] - size, pos[1] + size, pos[2] - size, pos[2] + size>>

\* a box was computed for a cone in the corner (0, 0) whose square sticks out
Wit_C6_CornerClamped ==
    /\ fn = "bounding_box" /\ Returned
    /\ args.gc.pos_new = <<0, 0>>
    /\ args.gc.size = MaxSize
    /\ ret.borders[1] = 0 /\ ret.borders[3] = 0

\* the cells of the box x_min..x_max by y_min..y_max (bounds included) within
\* the radius (half the edge) of the midpoint of the box
FootprintCells(pos, size, sub) ==
    LET b == bounding_box(pos, size, sub)
        edge == Abs(b[3] - b[4])
    IN  { c \in (b[3] .. b[4]) \X (b[1] .. b[2]) :
            (2 * c[1] - (b[3] + b[4])) * (2 * c[1] - (b[3] + b[4]))
            + (2 * c[2] - (b[1] + b[2])) * (2 * c[2] - (b[1] + b[2]))
              <= edge * edge }

\* C3: for a position inside the substrate ft_interaction sums the ligands
\* (receptors) over exactly the cells of the clipped box x_min..x_max by
\* y_min..y_max that lie within the radius of the midpoint of the box.
CE_C3_FootprintIsWholeDisc ==
    (fn = "ft_interaction" /\ Returned /\ Inside(args.gc.pos_new, args.substrate)) =>
        LET cells == FootprintCells(args.gc.pos_new, args.gc.size, args.substrate)
        IN  /\ ret.reads = cells
            /\ ret.sum_ligands = SumCells(cells, args.substrate.ligands, args.substrate)
            /\ ret.sum_receptors = SumCells(cells, args.substrate.receptors, args.substrate)

\* C10: at every integer position (inside, on the edge or outside the
\* substrate, negative coordinates included) every index pair (i, j) read by
\* ft_interaction has 0 <= i <= rows - 1 and 0 <= j <= cols - 1, no read
\* faults, and an empty clipped range on either axis gives the sums 0.
Thm_C10_ReadsInsideGrid ==
    (fn = "ft_interaction" /\ Returned) =>
        LET sub == args.substrate
            pos == args.gc.pos_new
            size == args.gc.size
        IN  /\ ~ ret.fault
            /\ \A c \in ret.reads :
                  /\ 0 <= c[1] /\ c[1] <= sub.rows - 1
                  /\ 0 <= c[2] /\ c[2] <= sub.cols - 1
            /\ ( \/ Max(0, pos[1] - size) > Min(sub.cols - 1, pos[1] + size)
                 \/ Max(0, pos[2] - size) > Min(sub.rows - 1, pos[2] + size) )
               => (ret.sum_ligands = 0 /\ ret.sum_receptors = 0 /\ ret.reads = {})

\* a scan at a position with a negative coordinate that read cells
Wit_C10_NegativePositionRead ==
    /\ fn = "ft_interaction" /\ Returned
    /\ args.gc.pos_new[1] < 0
    /\ ret.reads # {}
    /\ ret.sum_ligands > 0

\* ---- intersection_area and ff_interaction ----
MaxGrid == 4
MaxOthers == 2

OtherPositions == { <<0, 0>>, <<1, 0>>, <<2, 0>>, <<1, 1>>, <<2, 2>>, <<4, 0>>, <<2, 4>> }
OtherLevels == { <<Half, 100>>, <<0, Half>> }

\* the cones 1 .. k next to gc1: each somewhere on the grid with a candidate
\* position on top of gc1's
OtherCones(k, gc1_pos_new) ==
    [ 1 .. k -> { Cone(0, 1, p, gc1_pos_new, l[1], l[2]) :
                    p \in OtherPositions, l \in OtherLevels } ]

Renumber(others) ==
    [ i \in 1 .. Len(others) |-> [ others[i] EXCEPT !.id = i ] ]

InitFf ==
    /\ fn \in {"intersection_area", "ff_interaction"}
    /\ \/ /\ fn = "intersection_area"
          /\ \E c1 \in { <<0, 0>>, <<2, 1>> } :
             \E c2 \in (0 .. MaxGrid) \X (0 .. MaxGrid) :
             \E radius \in 1 .. MaxSize :
                args = [ gc1_pos |-> c1, gc2_pos |-> c2, radius |-> radius ]
       \/ /\ fn = "ff_interaction"
          /\ \E pos_new \in { <<0, 0>>, <<2, 2>> } :
             \E pos_current \in { pos_new, <<4, 4>> } :
             \E size \in 1 .. MaxSize :
             \E k \in 0 .. MaxOthers :
             \E others \in OtherCones(k, pos_new) :
                LET gc1 == Cone(0, size, pos_current, pos_new, Half, Half)
                IN  args = [ gc1 |-> gc1, gcs |-> <<gc1>> \o Renumber(others) ]
    /\ ret = NoRet
    /\ IdleSim /\ IdleFac

CallIntersectionArea ==
    /\ fn = "intersection_area"
    /\ ret = NoRet
    /\ ret' = [ area |-> intersection_area(args.gc1_pos, args.gc2_pos, args.radius) ]
    /\ UNCHANGED <<fn, args, simVars, facVars>>

CallFfInteraction ==
    /\ fn = "ff_interaction"
    /\ ret = NoRet
    /\ ret' = ff_interaction(args.gc1, args.gcs)
    /\ UNCHANGED <<fn, args, simVars, facVars>>

NextFf == CallIntersectionArea \/ CallFfInteraction

SpecFf == InitFf /\ [][NextFf]_vars

\* squared distance of two grid points
Dist2(p, q) == (p[1] - q[1]) * (p[1] - q[1]) + (p[2] - q[2]) * (p[2] - q[2])

\* the positions k of the list whose cone is not gc1 and nearer than 2 * size
Neighbours(gc1, cones) ==
    { k \in 1 .. Len(cones) :
        /\ cones[k].id # gc1.id
        /\ Dist2(cones[k].pos_current, gc1.pos_new) < 4 * gc1.size * gc1.size }

RECURSIVE SumArea(_, _, _, _)
SumArea(ks, gc1, cones, field) ==
    IF ks = {} THEN 0
    ELSE LET k == CHOOSE k \in ks : TRUE
             level == IF field = "ligand" THEN cones[k].ligand_current
                      ELSE cones[k].receptor_current
         IN  MulDiv(intersection_area(gc1.pos_new, cones[k].pos_current, gc1.size), level)
             + SumArea(ks \ {k}, gc1, cones, field)

\* C4: ff_interaction accumulates a contribution from exactly the cones of
\* gcs that are not gc1 and whose pos_current is nearer than 2 * size to
\* gc1.pos_new; each adds intersection_area * its ligand (receptor) level.
\* gc1 never contributes, although it is an element of gcs.
Thm_C4_ContributorsAreNearOthers ==
    (fn = "ff_interaction" /\ Returned) =>
        LET near == Neighbours(args.gc1, args.gcs)
        IN  /\ ret.contributors = { args.gcs[k].id : k \in near }
            /\ args.gc1.id \notin ret.contributors
            /\ ret.sum_ligands = SumArea(near, args.gc1, args.gcs, "ligand")
            /\ ret.sum_receptors = SumArea(near, args.gc1, args.gcs, "receptor")

\* gc1 sits on its own candidate position, in gcs, next to a distinct cone
\* at the same position, and only the latter contributed
Wit_C4_SelfSkippedTwinCounted ==
    /\ fn = "ff_interaction" /\ Returned
    /\ args.gc1.pos_current = args.gc1.pos_new
    /\ args.gcs[1] = args.gc1
    /\ Len(args.gcs) = 2
    /\ args.gcs[2].pos_current = args.gc1.pos_new
    /\ args.gcs[2].ligand_current > 0
    /\ ret.contributors = {args.gcs[2].id}
    /\ ret.sum_ligands > 0

\* C5: intersection_area is radius^2 * pi for coincident centers and 0 for
\* centers at distance >= 2 * radius (2 * radius included); so a cone exactly
\* 2r away adds nothing to the FF sums and a coincident one adds r^2 * pi
\* times its level.
Thm_C5_FullAndNoOverlap ==
    /\ (fn = "intersection_area" /\ Returned) =>
          /\ args.gc1_pos = args.gc2_pos
                => ret.area = args.radius * args.radius * Pi
          /\ Dist2(args.gc1_pos, args.gc2_pos) >= 4 * args.radius * args.radius
                => ret.area = 0
    /\ (fn = "ff_interaction" /\ Returned) =>
          LET gc1 == args.gc1
              others == { k \in 1 .. Len(args.gcs) : args.gcs[k].id # gc1.id }
              twins == { k \in others : args.gcs[k].pos_current = gc1.pos_new }
              far == { k \in others : Dist2(args.gcs[k].pos_current, gc1.pos_new)
                                         >= 4 * gc1.size * gc1.size }
          IN  (others = twins \cup far) =>
                 /\ Cardinality(twins) = 0 => ret.sum_ligands = 0
                 /\ Cardinality(twins) = 1 =>
                       \A k \in twins :
                          /\ ret.sum_ligands =
                                MulDiv(gc1.size * gc1.size * Pi, args.gcs[k].ligand_current)
                          /\ ret.sum_receptors =
                                MulDiv(gc1.size * gc1.size * Pi, args.gcs[k].receptor_current)

\* the area of two circles of radius MaxSize exactly two radii apart was taken
Wit_C5_ExactlyTwoRadii ==
    /\ fn = "intersection_area" /\ Returned
    /\ args.radius = MaxSize
    /\ Dist2(args.gc1_pos, args.gc2_pos) = 4 * args.radius * args.radius
    /\ ret.area = 0

\* ---- calculate_potential ----
Levels == { 0, 1, 100, Half }

PotSubstrates == { MakeSubstrate(3, 3, kind) : kind \in {"empty", "gradient", "stripe"} }

InitPot ==
    /\ fn = "calculate_potential"
    /\ \E pos_new \in { <<1, 1>>, <<2, 1>> } :
       \E size \in 1 .. MaxSize :
       \E ligand \in Levels :
       \E receptor \in Levels :
       \E other_pos \in { <<1, 1>>, <<2, 2>> } :
       \E other_levels \in OtherLevels :
       \E sub \in PotSubstrates :
       \E ff_coef \in { 0, Half, Unit } :
       \E forward_on \in BOOLEAN :
       \E reverse_on \in BOOLEAN :
       \E ff_inter_on \in BOOLEAN :
       \E ft_inter_on \in BOOLEAN :
          LET gc == Cone(0, size, <<1, 1>>, pos_new, ligand, receptor)
              other == Cone(1, size, other_pos, <<1, 1>>, other_levels[1], other_levels[2])
          IN  args = [ gc |-> gc, gcs |-> <<gc, other>>, substrate |-> sub,
                       ff_coef |-> ff_coef, forward_on |-> forward_on,
                       reverse_on |-> reverse_on, ff_inter_on |-> ff_inter_on,
                       ft_inter_on |-> ft_inter_on ]
    /\ ret = NoRet
    /\ IdleSim /\ IdleFac

CallCalculatePotential ==
    /\ fn = "calculate_potential"
    /\ ret = NoRet
    /\ ret' = calculate_potential(args.gc, args.gcs, args.substrate, args.ff_coef,
                                  args.forward_on, args.reverse_on,
                                  args.ff_inter_on, args.ft_inter_on)
    /\ UNCHANGED <<fn, args, simVars, facVars>>

NextPot == CallCalculatePotential

SpecPot == InitPot /\ [][NextPot]_vars

ZeroNoLog == ret.value = 0 /\ ret.log_args = <<>> /\ ret.fault = "none"

\* C1: calculate_potential returns 0, without taking a logarithm, whenever
\* both rounded signals are 0; in particular for a cone whose receptor and
\* ligand level are both 0 (whatever the substrate, the other cones, ff_coef
\* and the toggles) and for every cone when forward_on and reverse_on are off.
Thm_C1_ZeroSignalsZeroPotential ==
    (fn = "calculate_potential" /\ Returned) =>
        /\ (ret.forward_sig = 0 /\ ret.reverse_sig = 0) => ZeroNoLog
        /\ (args.gc.receptor_current = 0 /\ args.gc.ligand_current = 0) => ZeroNoLog
        /\ (~ args.forward_on /\ ~ args.reverse_on) => ZeroNoLog

\* a cone without receptor and ligand was evaluated with every toggle on, on a
\* substrate with ligands, under a coincident cone with ligands
Wit_C1_ZeroConeAllOn ==
    /\ fn = "calculate_potential" /\ Returned
    /\ args.gc.receptor_current = 0 /\ args.gc.ligand_current = 0
    /\ args.forward_on /\ args.reverse_on /\ args.ff_inter_on /\ args.ft_inter_on
    /\ args.ff_coef > 0
    /\ args.gcs[2].pos_current = args.gc.pos_new
    /\ args.gcs[2].ligand_current > 0
    /\ args.substrate.ligands[1][1] > 0
    /\ ret.value = 0

\* C2: with non-negative levels, substrate values and ff_coef the logarithm is
\* only taken of strictly positive arguments, the call raises no fault and the
\* potential is >= 0; when exactly one signal rounds to 0 it is replaced by
\* 0.0001 and the potential is |ln(nonzero signal) - ln(0.0001)|.
Thm_C2_LogOfPositiveOnly ==
    (fn = "calculate_potential" /\ Returned) =>
        /\ ret.fault = "none"
        /\ \A k \in 1 .. Len(ret.log_args) : ret.log_args[k] > 0
        /\ ret.value >= 0
        /\ (ret.forward_sig = 0 /\ ret.reverse_sig # 0) =>
              /\ ret.log_args = <<ret.reverse_sig, LogFloor>>
              /\ ret.value = Abs(Ln(ret.reverse_sig) - Ln(LogFloor))
        /\ (ret.forward_sig # 0 /\ ret.reverse_sig = 0) =>
              /\ ret.log_args = <<LogFloor, ret.forward_sig>>
              /\ ret.value = Abs(Ln(ret.forward_sig) - Ln(LogFloor))

\* a positive forward signal below the rounding step met a reverse signal
\* that did not round to 0
Wit_C2_OneSignalRoundsToZero ==
    /\ fn = "calculate_potential" /\ Returned
    /\ args.forward_on /\ args.reverse_on
    /\ args.gc.receptor_current > 0 /\ args.gc.ligand_current > 0
    /\ ret.forward_sig = 0 /\ ret.reverse_sig > 0
    /\ ret.value > 0

\* ---- calculate_ff_coef over the steps of one run ----
MaxNumSteps == 5
MaxSteepness == 3

InitCoef ==
    /\ fn = "calculate_ff_coef"
    /\ \E num_steps \in 1 .. MaxNumSteps :
       \E sigmoid_steepness \in 1 .. MaxSteepness :
       \E sigmoid_shift \in { Half, Unit, 3 * Unit } :
       \E sigmoid_height \in { Half, Unit, 2 * Unit } :
          args = [ num_steps |-> num_steps, sigmoid_steepness |-> sigmoid_steepness,
                   sigmoid_shift |-> sigmoid_shift, sigmoid_height |-> sigmoid_height ]
    /\ ret = [ values |-> <<>> ]
    /\ IdleSim /\ IdleFac

\* the call for the next step of 0 .. num_steps
CallCalculateFfCoef ==
    /\ fn = "calculate_ff_coef"
    /\ Len(ret.values) <= args.num_steps
    /\ ret' = [ values |-> Append(ret.values,
                    calculate_ff_coef(Len(ret.values), args.num_steps,
                                      args.sigmoid_steepness, args.sigmoid_shift,
                                      args.sigmoid_height)) ]
    /\ UNCHANGED <<fn, args, simVars, facVars>>

NextCoef == CallCalculateFfCoef

SpecCoef == InitCoef /\ [][NextCoef]_vars

\* C9: for num_steps, steepness, shift, height > 0 calculate_ff_coef is
\* non-decreasing in step over 0 .. num_steps and every value lies in
\* (0, height].
Thm_C9_CoefMonotoneBounded ==
    (fn = "calculate_ff_coef") =>
        \A k \in 1 .. Len(ret.values) :
            /\ 0 < ret.values[k]
            /\ ret.values[k] <= args.sigmoid_height * Unit
            /\ k > 1 => ret.values[k - 1] <= ret.values[k]

\* the coefficients of a whole run of MaxNumSteps steps, rising from the
\* first to the last
Wit_C9_WholeRunRises ==
    /\ fn = "calculate_ff_coef"
    /\ args.num_steps = MaxNumSteps
    /\ Len(ret.values) = args.num_steps + 1
    /\ ret.values[1] < ret.values[Len(ret.values)]

\* ---- build_simulation ----
MaxCones == 3

SubstrateTypes ==
    { "CONTINUOUS_GRADIENTS", "WEDGES", "STRIPE_FWD", "STRIPE_REW", "STRIPE_DUO",
      "GAP_RR", "GAP_RB", "GAP_BR", "GAP_BB", "GAP_INV" }

InitFactory ==
    /\ fpc = "build_substrate"
    /\ \E substrate_type \in SubstrateTypes \cup { "unknown", "" } :
       \E gc_count \in 0 .. MaxCones :
       \E gc_size \in 1 .. MaxSize :
       \E rows \in { 3, 5 } :
          config = [ substrate_type |-> substrate_type, gc_count |-> gc_count,
                     gc_size |-> gc_size, rows |-> rows, cols |-> rows,
                     custom_first |-> 100, custom_second |-> Unit ]
    /\ constructed = <<>>
    /\ initialize_calls = 0
    /\ growth_cones = <<>>
    /\ simulation = <<>>
    /\ raised = "none"
    /\ IdleCalls /\ IdleSim

\* build_simulation, first statement: substrate = build_substrate(config)
BuildSubstrate ==
    /\ fpc = "build_substrate"
    /\ LET r == build_substrate(config)
       IN  /\ raised' = r.raised
           /\ constructed' = constructed \o r.constructed
           /\ initialize_calls' = initialize_calls + r.initialize_calls
           /\ fpc' = IF r.raised = "none" THEN "initialize_growth_cones" ELSE "raised"
    /\ UNCHANGED <<config, growth_cones, simulation, callVars, simVars>>

\* second statement: growth_cones = initialize_growth_cones(config)
InitializeGrowthCones ==
    /\ fpc = "initialize_growth_cones"
    /\ growth_cones' = initialize_growth_cones(config)
    /\ fpc' = "simulation"
    /\ UNCHANGED <<config, constructed, initialize_calls, simulation, raised,
                   callVars, simVars>>

\* last statement: simulation = Simulation(substrate, growth_cones, ...)
ConstructSimulation ==
    /\ fpc = "simulation"
    /\ simulation' = <<[ substrate |-> constructed[Len(constructed)],
                         growth_cones |-> growth_cones ]>>
    /\ fpc' = "done"
    /\ UNCHANGED <<config, constructed, initialize_calls, growth_cones, raised,
                   callVars, simVars>>

NextFactory == BuildSubstrate \/ InitializeGrowthCones \/ ConstructSimulation

SpecFactory == InitFactory /\ [][NextFactory]_vars

\* C7: on an unrecognized selector build_substrate, and so build_simulation,
\* raises ValueError before any substrate is constructed or initialized and
\* before any growth cone or Simulation is built; on a recognized selector
\* exactly one substrate is constructed and initialize_substrate is called on
\* it exactly once before it is returned.
Thm_C7_FailFastOnUnknownSelector ==
    (fpc \notin { "idle", "build_substrate" }) =>
        IF config.substrate_type \in SubstrateTypes
        THEN /\ raised = "none"
             /\ Len(constructed) = 1
             /\ constructed[1].class = SubstrateClass(config.substrate_type)
             /\ initialize_calls = 1
        ELSE /\ raised = "ValueError"
             /\ fpc = "raised"
             /\ constructed = <<>>
             /\ initialize_calls = 0
             /\ growth_cones = <<>>
             /\ simulation = <<>>

\* build_simulation stopped with ValueError on a configuration that asks for
\* growth cones under an unknown selector
Wit_C7_UnknownSelectorRaised ==
    /\ fpc = "raised"
    /\ raised = "ValueError"
    /\ config.substrate_type = "unknown"
    /\ config.gc_count = MaxCones

\* ---- the simulation loop ----
MaxSteps == 1

\* candidate moves of one step: forward or not along x, either way along y
Moves == { <<dx, dy>> : dx \in {0, 1}, dy \in {-1, 0, 1} }

Clamp(v, lo, hi) == Max(lo, Min(hi, v))

FfCoefAt(s) ==
    calculate_ff_coef(s, settings.num_steps, settings.sigmoid_steepness,
                      settings.sigmoid_shift, Unit) \div Unit

InitStep ==
    /\ \E gc_count \in { 1, 2 } :
       \E gc_size \in 1 .. MaxSize :
       \E kind \in { "gradient" } :
       \E sigmoid_steepness \in { 2 } :
       \E forward_on \in BOOLEAN :
       \E reverse_on \in BOOLEAN :
       \E ff_inter_on \in BOOLEAN :
       \E ft_inter_on \in BOOLEAN :
          /\ gcs = initialize_growth_cones(
                       [ gc_count |-> gc_count, gc_size |-> gc_size, rows |-> 3 ])
          /\ substrate = MakeSubstrate(3 + gc_size, 3 + gc_size, kind)
          /\ settings = [ num_steps |-> MaxSteps,
                          sigmoid_steepness |-> sigmoid_steepness,
                          sigmoid_shift |-> 3 * Unit,
                          forward_on |-> forward_on, reverse_on |-> reverse_on,
                          ff_inter_on |-> ff_inter_on, ft_inter_on |-> ft_inter_on ]
          /\ potential = [ k \in 1 .. gc_count |-> Nothing ]
    /\ order = <<>>
    /\ step = 0
    /\ IdleCalls /\ IdleFac

\* one cone of the current step: propose a candidate, store it in pos_new,
\* evaluate the potential there
EvaluateCone(c) ==
    /\ step < settings.num_steps
    /\ \A k \in 1 .. Len(order) : order[k] # c
    /\ \E m \in Moves :
          LET cand == <<Clamp(gcs[c].pos_current[1] + m[1], 0, substrate.cols - 1),
                        Clamp(gcs[c].pos_current[2] + m[2], 0, substrate.rows - 1)>>
              moved == [ gcs EXCEPT ![c].pos_new = cand ]
          IN  /\ gcs' = moved
              /\ potential' = [ potential EXCEPT ![c] =
                     calculate_potential(moved[c], moved, substrate, FfCoefAt(step),
                                         settings.forward_on, settings.reverse_on,
                                         settings.ff_inter_on, settings.ft_inter_on) ]
    /\ order' = Append(order, c)
    /\ UNCHANGED <<substrate, settings, step, callVars, facVars>>

\* end of the step: every cone was evaluated, pos_new becomes pos_current
PromoteStep ==
    /\ step < settings.num_steps
    /\ Len(order) = Len(gcs)
    /\ gcs' = [ k \in 1 .. Len(gcs) |-> [ gcs[k] EXCEPT !.pos_current = gcs[k].pos_new ] ]
    /\ order' = <<>>
    /\ step' = step + 1
    /\ UNCHANGED <<substrate, settings, potential, callVars, facVars>>

NextStep == (\E c \in 1 .. Len(gcs) : EvaluateCone(c)) \/ PromoteStep

SpecStep == InitStep /\ [][NextStep]_vars

\* the cones as cone c may see them by the contract: every other cone's
\* pos_new and its own pos_current blanked out
Snapshot(c) ==
    [ k \in 1 .. Len(gcs) |->
        IF k = c THEN [ gcs[k] EXCEPT !.pos_current = <<0, 0>> ]
        ELSE [ gcs[k] EXCEPT !.pos_new = <<0, 0>> ] ]

\* C8: the potential of a cone depends only on its own pos_new, size and
\* levels, the other cones' pos_current and levels, the substrate, ff_coef and
\* the toggles, not on another cone's pos_new nor on its own pos_current; so
\* within a step every cone's potential is the same whatever the order in
\* which the cones are evaluated.
Thm_C8_PotentialIgnoresInProgressMoves ==
    \A k \in 1 .. Len(order) :
        LET c == order[k]
        IN  potential[c] =
               calculate_potential(Snapshot(c)[c], Snapshot(c), substrate, FfCoefAt(step),
                                   settings.forward_on, settings.reverse_on,
                                   settings.ff_inter_on, settings.ft_inter_on)

\* the second cone of a step was evaluated within reach of the first cone's
\* pos_current after the first had already moved its pos_new out of reach
Wit_C8_EvaluatedAfterNeighbourMoved ==
    /\ Len(order) = 2
    /\ settings.ff_inter_on /\ settings.forward_on /\ settings.reverse_on
    /\ gcs[order[1]].pos_new # gcs[order[1]].pos_current
    /\ Dist2(gcs[order[1]].pos_current, gcs[order[2]].pos_new)
          < 4 * gcs[order[2]].size * gcs[order[2]].size
    /\ Dist2(gcs[order[1]].pos_new, gcs[order[2]].pos_new)
          >= 4 * gcs[order[2]].size * gcs[order[2]].size
    /\ potential[order[2]].value > 0

====
